---- MODULE Spec2Model ----
(***************************************************************************)
(* A model of rapidsms.config (lib/rapidsms/config.py): the Config object  *)
(* built from an ini file in three passes, the normalisation of values,    *)
(* the search for an app's code unit, the merge of an app's and a          *)
(* backend's options, and the lazy app handle LazyAppConf.                 *)
(*                                                                         *)
(* Python strings are sequences of one-character strings, dicts are        *)
(* functions, None is the record [isNone |-> TRUE], and a call that may    *)
(* raise yields a record whose field exc names the exception class         *)
(* ("none" when the call returns, its value then in the field ret).        *)
(***************************************************************************)
EXTENDS Integers, Sequences, FiniteSets, TLC

VARIABLES
    pc,               \* position of the program: see the three specifications
    parser,           \* SafeConfigParser after read(): section |-> (option |-> string)
    modules,          \* the code units the interpreter can see: path |-> [kind, names]
    raw_data,         \* Config.raw_data
    normalized_data,  \* Config.normalized_data
    data,             \* Config.data; the app handles live in data[rapidsms].apps
    calls,            \* app name |-> number of invocations of Config.app_section
    imported,         \* the paths __import__ has been asked for since construction began
    last              \* the last operation, its argument and its outcome

vars == <<pc, parser, modules, raw_data, normalized_data, data, calls, imported, last>>

----------------------------------------------------------------------------
(* Bounds of the model.                                                    *)

\* longest value of "apps" or "backends" in the files of SpecInit
MaxListLen == 3
\* longest value of "apps" in the files of Spec
MaxAppsLen == 3
\* longest value of "backends" in the files of Spec
MaxBackendsLen == 1
\* longest string handed to __normalize_value in SpecNorm
MaxValueLen == 3
\* accesses through one app handle that the model follows
MaxCalls == 2

----------------------------------------------------------------------------
(* Python strings.                                                         *)

None == [isNone |-> TRUE]
Some(v) == [isNone |-> FALSE, val |-> v]

\* the empty dict
EmptyDict == << >>

\* strings of at most n characters over the alphabet A
RECURSIVE StringsUpTo(_, _)
StringsUpTo(A, n) ==
    IF n = 0 THEN {<< >>}
    ELSE LET shorter == StringsUpTo(A, n - 1)
         IN  shorter \cup {Append(s, c) : s \in {t \in shorter : Len(t) = n - 1}, c \in A}

Range(s) == {s[i] : i \in DOMAIN s}

\* str.lower(), on the letters the model's alphabets hold
LowerChar(c) ==
    CASE c = "N" -> "n"
      [] c = "O" -> "o"
      [] OTHER   -> c

lower(s) == [i \in 1..Len(s) |-> LowerChar(s[i])]

Whitespace == {" "}

\* str.strip()
RECURSIVE lstrip(_)
lstrip(s) == IF s # << >> /\ Head(s) \in Whitespace THEN lstrip(Tail(s)) ELSE s

RECURSIVE rstrip(_)
rstrip(s) ==
    IF s # << >> /\ s[Len(s)] \in Whitespace THEN rstrip(SubSeq(s, 1, Len(s) - 1)) ELSE s

strip(s) == rstrip(lstrip(s))

startswith(s, p) == Len(s) >= Len(p) /\ SubSeq(s, 1, Len(p)) = p

\* index of the first occurrence of sep in s from position i on, 0 when there is none
RECURSIVE find(_, _, _)
find(s, sep, i) ==
    IF i + Len(sep) - 1 > Len(s) THEN 0
    ELSE IF SubSeq(s, i, i + Len(sep) - 1) = sep THEN i
    ELSE find(s, sep, i + 1)

\* index of the last occurrence of sep in s at or before position i, 0 when there is none
RECURSIVE rfind(_, _, _)
rfind(s, sep, i) ==
    IF i < 1 THEN 0
    ELSE IF i + Len(sep) - 1 <= Len(s) /\ SubSeq(s, i, i + Len(sep) - 1) = sep THEN i
    ELSE rfind(s, sep, i - 1)

\* str.split(sep)
RECURSIVE split(_, _)
split(s, sep) ==
    LET i == find(s, sep, 1)
    IN  IF i = 0 THEN <<s>>
        ELSE <<SubSeq(s, 1, i - 1)>> \o split(SubSeq(s, i + Len(sep), Len(s)), sep)

\* str.rsplit(sep, 1)
rsplit1(s, sep) ==
    LET i == rfind(s, sep, Len(s))
    IN  IF i = 0 THEN <<s>>
        ELSE <<SubSeq(s, 1, i - 1), SubSeq(s, i + Len(sep), Len(s))>>

\* sep.join([a, b])
join2(sep, a, b) == a \o sep \o b

\* sep.join(list)
RECURSIVE join(_, _)
join(sep, list) ==
    IF list = << >> THEN << >>
    ELSE IF Len(list) = 1 THEN list[1]
    ELSE list[1] \o sep \o join(sep, Tail(list))

Digits == {"0", "1"}

DigitVal(c) == IF c = "1" THEN 1 ELSE 0

RECURSIVE DecVal(_)
DecVal(t) == IF t = << >> THEN 0 ELSE 10 * DecVal(SubSeq(t, 1, Len(t) - 1)) + DigitVal(t[Len(t)])

IsDigits(t) == \A i \in DOMAIN t : t[i] \in Digits

\* the fraction digits without their trailing zeros
RECURSIVE TrimZeros(_)
TrimZeros(t) ==
    IF t # << >> /\ t[Len(t)] = "0" THEN TrimZeros(SubSeq(t, 1, Len(t) - 1)) ELSE t

\* int(value) of a str: surrounding whitespace allowed, then decimal digits
PyInt(value) ==
    LET t == strip(value)
    IN  IF t # << >> /\ IsDigits(t) THEN [exc |-> "none", ret |-> [int |-> DecVal(t)]]
        ELSE [exc |-> "ValueError"]

\* float(value) of a str: digits with at most one point and at least one digit;
\* the float is kept as its whole part and its fraction digits
PyFloat(value) ==
    LET t    == strip(value)
        dot  == find(t, <<".">>, 1)
        w    == IF dot = 0 THEN t ELSE SubSeq(t, 1, dot - 1)
        f    == IF dot = 0 THEN << >> ELSE SubSeq(t, dot + 1, Len(t))
    IN  IF IsDigits(w) /\ IsDigits(f) /\ Len(w) + Len(f) > 0
        THEN [exc |-> "none", ret |-> [float |-> [whole |-> DecVal(w), frac |-> TrimZeros(f)]]]
        ELSE [exc |-> "ValueError"]

----------------------------------------------------------------------------
(* Names the code writes as literals.                                      *)

S_false    == <<"f", "a", "l", "s", "e">>
S_no       == <<"n", "o">>
S_true     == <<"t", "r", "u", "e">>
S_yes      == <<"y", "e", "s">>
S_type     == <<"t", "y", "p", "e">>
S_module   == <<"m", "o", "d", "u", "l", "e">>
S_path     == <<"p", "a", "t", "h">>
S_apps     == <<"a", "p", "p", "s">>
S_backends == <<"b", "a", "c", "k", "e", "n", "d", "s">>
S_config   == <<"c", "o", "n", "f", "i", "g">>
S_rapidsms == <<"r", "a", "p", "i", "d", "s", "m", "s">>
S_contrib  == <<"c", "o", "n", "t", "r", "i", "b">>
Dot        == <<".">>
Comma      == <<",">>

\* Config.app_prefixes
app_prefixes ==
    << join(Dot, <<S_rapidsms, S_contrib, S_apps>>), join(Dot, <<S_rapidsms, S_apps>>) >>

----------------------------------------------------------------------------
(* Module-level and Config helpers.                                        *)

\* to_list(item, separator): item is a normalized value; a bool has no split()
to_list(item, separator) ==
    LET stripped(parts) == [i \in DOMAIN parts |-> strip(parts[i])]
    IN  IF "str" \in DOMAIN item
        THEN [exc |-> "none",
              ret |-> SelectSeq(stripped(split(item.str, separator)), LAMBDA x : x # << >>)]
        ELSE [exc |-> "AttributeError"]

\* Config.__normalize_value: the results of int() and float() are dropped
__normalize_value(value) ==
    IF lower(value) \in {S_false, S_no} THEN [bool |-> FALSE]
    ELSE IF lower(value) \in {S_true, S_yes} THEN [bool |-> TRUE]
    ELSE LET tried == <<PyInt(value), PyFloat(value)>>
         IN  [str |-> value]

\* dict.get(key, default)
get(d, key, default) == IF key \in DOMAIN d THEN d[key] ELSE default

\* d[key] = value
put(d, key, value) == [x \in DOMAIN d \cup {key} |-> IF x = key THEN value ELSE d[x]]

\* d.update(e)
update(d, e) == [x \in DOMAIN d \cup DOMAIN e |-> IF x \in DOMAIN e THEN e[x] ELSE d[x]]

----------------------------------------------------------------------------
(* The interpreter's import machinery, as Config calls it.  A code unit is *)
(* named by its dotted path; modules maps each unit that exists to         *)
(*   kind  : "package" (imports cleanly, has __path__), "module" (imports  *)
(*           cleanly, has no __path__), "ImportError" (running it raises   *)
(*           ImportError) or "Exception" (running it raises another        *)
(*           exception);                                                   *)
(*   names : what dir() lists of it, name |-> value.                       *)
(* A path outside DOMAIN modules names no unit.                            *)

kind(mods, path) == IF path \in DOMAIN mods THEN mods[path].kind ELSE "absent"

loads(mods, path) == kind(mods, path) \in {"package", "module"}

\* __import__(name, {}, {}, fromlist): the unit name is imported; with a fromlist,
\* a package also imports the named sub-unit, and a sub-unit that does not
\* exist is passed over in silence.  The module object is stood for by its path.
import(mods, name, fromlist) ==
    LET sub == join2(Dot, name, fromlist[1])
    IN  CASE kind(mods, name) \in {"absent", "ImportError"} -> [exc |-> "ImportError"]
          [] kind(mods, name) = "Exception" -> [exc |-> "Exception"]
          [] kind(mods, name) = "package" /\ fromlist # << >>
                /\ kind(mods, sub) \in {"ImportError", "Exception"} -> [exc |-> kind(mods, sub)]
          [] OTHER -> [exc |-> "none", ret |-> name]

\* hasattr(module, attr): a sub-unit is an attribute of its package once imported
hasattr(mods, module, attr) ==
    kind(mods, module) = "package" /\ loads(mods, join2(Dot, module, attr))

\* getattr(module, attr), for a sub-unit
getattr(module, attr) == join2(Dot, module, attr)

\* module.__path__[0]: where a package lives
path0(module) == <<"/">> \o module

\* the names of dir(module) that do not start with an underscore, with their values
public(mods, module) ==
    [v \in {x \in DOMAIN mods[module].names : ~startswith(x, <<"_">>)} |->
        mods[module].names[v]]

\* Config.__import_class: ImportError is logged and swallowed, None comes back;
\* log lists the paths whose import was attempted
__import_class(mods, class_tmpl) ==
    LET returned(split_module, r) ==
            CASE r.exc = "ImportError" -> [exc |-> "none", ret |-> None, log |-> <<class_tmpl>>]
              [] r.exc = "Exception"   -> [exc |-> "Exception", log |-> <<class_tmpl>>]
              [] OTHER ->
                   IF Len(split_module) > 1
                      /\ hasattr(mods, r.ret, split_module[Len(split_module)])
                   THEN [exc |-> "none", log |-> <<class_tmpl>>,
                         ret |-> Some(getattr(r.ret, split_module[Len(split_module)]))]
                   ELSE [exc |-> "none", log |-> <<class_tmpl>>, ret |-> Some(r.ret)]
        imported_as(split_module) ==
            returned(split_module, import(mods, split_module[1], Tail(split_module)))
    IN  imported_as(rsplit1(class_tmpl, Dot))

\* the loop of Config.__import_app over app_prefixes, from the i-th prefix on
RECURSIVE import_from_prefixes(_, _, _, _)
import_from_prefixes(mods, app_type, i, log) ==
    LET tried(mod_str, module) ==
            IF module.exc # "none" THEN [exc |-> module.exc, log |-> log \o module.log]
            ELSE IF ~module.ret.isNone
            THEN [exc |-> "none", ret |-> <<mod_str, module.ret>>, log |-> log \o module.log]
            ELSE import_from_prefixes(mods, app_type, i + 1, log \o module.log)
        try(mod_str) == tried(mod_str, __import_class(mods, mod_str))
    IN  IF i > Len(app_prefixes)
        THEN [exc |-> "ImportError", log |-> log,
              msg |-> [app |-> app_type, from |-> join(<<" ", "o", "r", " ">>, app_prefixes)]]
        ELSE try(join(Dot, <<app_prefixes[i], app_type>>))

\* Config.__import_app: the prefixes are tried only when the direct import
\* raises ImportError out of __import_class
__import_app(mods, app_type) ==
    LET direct(module) ==
            CASE module.exc = "none" ->
                   [exc |-> "none", ret |-> <<app_type, module.ret>>, log |-> module.log]
              [] module.exc = "ImportError" ->
                   import_from_prefixes(mods, app_type, 1, module.log)
              [] OTHER -> [exc |-> module.exc, log |-> module.log]
    IN  direct(__import_class(mods, app_type))

----------------------------------------------------------------------------
(* The merge of a component's options.                                     *)

\* app_merge without its except clause
app_merge_no_except(mods, d) ==
    LET \* from the import of <module>.config on; module is found.ret[2]
        configured(d1, module, log, config) ==
            IF config.exc # "none"
            THEN [exc |-> config.exc, ret |-> None, log |-> log \o config.log, printed |-> None]
            \* module.__path__[0] of None, or of a unit that is no package
            ELSE IF module.isNone \/ kind(mods, module.val) # "package"
            THEN [exc |-> "AttributeError", ret |-> None, log |-> log \o config.log,
                  printed |-> None]
            ELSE [exc |-> "none", log |-> log \o config.log, printed |-> None,
                  ret |-> Some(put(IF config.ret.isNone THEN d1
                                   ELSE update(d1, public(mods, config.ret.val)),
                                   S_path, path0(module.val)))]
        located(found) ==
            IF found.exc # "none"
            THEN [exc |-> found.exc, ret |-> None, log |-> found.log, printed |-> None]
            ELSE configured(put(d, S_module, found.ret[1]), found.ret[2], found.log,
                            __import_class(mods, join2(Dot, found.ret[1], S_config)))
    IN  located(__import_app(mods, d[S_type]))

\* app_merge with the defaults copied under the options already in data
app_merge_user_wins(mods, d) ==
    LET \* from the import of <module>.config on; module is found.ret[2]
        configured(d1, module, log, config) ==
            IF config.exc # "none"
            THEN [exc |-> "none", ret |-> None, log |-> log \o config.log,
                  printed |-> Some([class |-> config.exc])]
            \* module.__path__[0] of None, or of a unit that is no package
            ELSE IF module.isNone \/ kind(mods, module.val) # "package"
            THEN [exc |-> "none", ret |-> None, log |-> log \o config.log,
                  printed |-> Some([class |-> "AttributeError"])]
            ELSE [exc |-> "none", log |-> log \o config.log, printed |-> None,
                  ret |-> Some(put(IF config.ret.isNone THEN d1
                                   ELSE update(public(mods, config.ret.val), d1),
                                   S_path, path0(module.val)))]
        located(found) ==
            IF found.exc = "ImportError"
            THEN [exc |-> "none", ret |-> None, log |-> found.log,
                  printed |-> Some([class |-> "ImportError", msg |-> found.msg])]
            ELSE IF found.exc # "none"
            THEN [exc |-> "none", ret |-> None, log |-> found.log,
                  printed |-> Some([class |-> found.exc])]
            ELSE configured(put(d, S_module, found.ret[1]), found.ret[2], found.log,
                            __import_class(mods, join2(Dot, found.ret[1], S_config)))
    IN  located(__import_app(mods, d[S_type]))

\* the try block of Config.app_section, entered with data["type"] set (d is the
\* local dict data): any Exception inside it is printed and the method falls off
\* its end, returning None
app_merge(mods, d) ==
    LET \* from the import of <module>.config on; module is found.ret[2]
        configured(d1, module, log, config) ==
            IF config.exc # "none"
            THEN [exc |-> "none", ret |-> None, log |-> log \o config.log,
                  printed |-> Some([class |-> config.exc])]
            \* module.__path__[0] of None, or of a unit that is no package
            ELSE IF module.isNone \/ kind(mods, module.val) # "package"
            THEN [exc |-> "none", ret |-> None, log |-> log \o config.log,
                  printed |-> Some([class |-> "AttributeError"])]
            ELSE [exc |-> "none", log |-> log \o config.log, printed |-> None,
                  ret |-> Some(put(IF config.ret.isNone THEN d1
                                   ELSE update(d1, public(mods, config.ret.val)),
                                   S_path, path0(module.val)))]
        located(found) ==
            IF found.exc = "ImportError"
            THEN [exc |-> "none", ret |-> None, log |-> found.log,
                  printed |-> Some([class |-> "ImportError", msg |-> found.msg])]
            ELSE IF found.exc # "none"
            THEN [exc |-> "none", ret |-> None, log |-> found.log,
                  printed |-> Some([class |-> found.exc])]
            ELSE configured(put(d, S_module, found.ret[1]), found.ret[2], found.log,
                            __import_class(mods, join2(Dot, found.ret[1], S_config)))
    IN  located(__import_app(mods, d[S_type]))

\* app_section with the "type" check made after the merge
app_section_check_late(raw, mods, name) ==
    LET checked(d, r) ==
            IF S_type \in DOMAIN d
            THEN [exc |-> "DeprecationWarning", log |-> r.log, raw_data |-> raw]
            ELSE [exc |-> r.exc, ret |-> r.ret, log |-> r.log, printed |-> r.printed,
                  raw_data |-> raw]
    IN  checked(get(raw, name, EmptyDict),
                app_merge(mods, put(get(raw, name, EmptyDict), S_type, name)))

\* app_section without the copy() of the raw section
app_section_no_copy(raw, mods, name) ==
    LET merged(d, r) ==
            [exc |-> r.exc, ret |-> r.ret, log |-> r.log, printed |-> r.printed,
             raw_data |-> IF name \notin DOMAIN raw THEN raw
                          ELSE IF r.ret.isNone THEN put(raw, name, d)
                          ELSE put(raw, name, r.ret.val)]
        checked(d) ==
            IF S_type \in DOMAIN d
            THEN [exc |-> "DeprecationWarning", log |-> << >>, raw_data |-> raw]
            ELSE merged(put(d, S_type, name), app_merge(mods, put(d, S_type, name)))
    IN  checked(get(raw, name, EmptyDict))

\* Config.app_section on a Config whose raw_data is raw: what the call raises or
\* returns, what it printed, the imports it attempted, and raw_data when it ends
app_section(raw, mods, name) ==
    LET merged(r) ==
            [exc |-> r.exc, ret |-> r.ret, log |-> r.log, printed |-> r.printed,
             raw_data |-> raw]
        checked(d) ==
            IF S_type \in DOMAIN d
            THEN [exc |-> "DeprecationWarning", log |-> << >>, raw_data |-> raw]
            ELSE merged(app_merge(mods, put(d, S_type, name)))
    IN  checked(get(raw, name, EmptyDict))

\* backend_section without the default of "type"
backend_section_no_default(raw, name) == get(raw, name, EmptyDict)

\* Config.backend_section
backend_section(raw, name) ==
    LET defaulted(d) == IF S_type \notin DOMAIN d THEN put(d, S_type, name) ELSE d
    IN  defaulted(get(raw, name, EmptyDict))

\* LazyAppConf.__init__
LazyAppConf(app_name) == [app_name |-> app_name, _cache |-> None]

\* lazy_app_section building the app's options at once
lazy_app_section_eager(name) ==
    LET built(r) == [app_name |-> name, _cache |-> IF r.exc = "none" THEN r.ret ELSE None]
    IN  built(app_section(raw_data, modules, name))

\* Config.lazy_app_section
lazy_app_section(name) == LazyAppConf(name)

\* Config.parse_rapidsms_section; raw is Config.raw_data, which backend_section reads
parse_rapidsms_section(raw, raw_section) ==
    LET built(app_names, backend_names) ==
            IF app_names.exc # "none" THEN [exc |-> app_names.exc]
            ELSE IF backend_names.exc # "none" THEN [exc |-> backend_names.exc]
            ELSE [exc |-> "none",
                  ret |-> [apps     |-> [n \in Range(app_names.ret) |-> lazy_app_section(n)],
                           backends |-> [n \in Range(backend_names.ret) |->
                                            backend_section(raw, n)]]]
    IN  built(to_list(get(raw_section, S_apps, [str |-> << >>]), Comma),
              to_list(get(raw_section, S_backends, [str |-> << >>]), Comma))

\* LazyAppConf._dict: app_section runs whenever _cache is None; invoked counts
\* that run, handle is the handle when _dict ends
_dict(handle, raw, mods) ==
    LET filled(r) ==
            IF r.exc # "none"
            THEN [exc |-> r.exc, invoked |-> 1, log |-> r.log, raw_data |-> r.raw_data,
                  handle |-> handle]
            ELSE [exc |-> "none", ret |-> r.ret, invoked |-> 1, log |-> r.log,
                  raw_data |-> r.raw_data, handle |-> [handle EXCEPT !._cache = r.ret]]
    IN  IF handle._cache.isNone
        THEN filled(app_section(raw, mods, handle.app_name))
        ELSE [exc |-> "none", ret |-> handle._cache, invoked |-> 0, log |-> << >>,
              raw_data |-> raw, handle |-> handle]

----------------------------------------------------------------------------
(* The three passes of Config.__init__.                                    *)

\* first pass: raw_data[sn] = dict(parser.items(sn))
raw_pass(p) == [sn \in DOMAIN p |-> p[sn]]

\* second pass: every value through __normalize_value
normalize_pass(raw) ==
    [sn \in DOMAIN raw |-> [key \in DOMAIN raw[sn] |-> __normalize_value(raw[sn][key])]]

\* third pass: of the sections the model's files hold, only "rapidsms" has a
\* parse_<name>_section; every other section is copied from normalized_data
parse_pass(raw, normalized) ==
    LET parsed(r) ==
            IF r.exc # "none" THEN [exc |-> r.exc]
            ELSE [exc |-> "none",
                  ret |-> [sn \in DOMAIN normalized |->
                              IF sn = S_rapidsms THEN r.ret ELSE normalized[sn]]]
    IN  IF S_rapidsms \in DOMAIN normalized
        THEN parsed(parse_rapidsms_section(raw, normalized[S_rapidsms]))
        ELSE [exc |-> "none", ret |-> normalized]

ReadRaw ==
    /\ pc = "init"
    /\ raw_data' = raw_pass(parser)
    /\ pc' = "raw"
    /\ UNCHANGED <<parser, modules, normalized_data, data, calls, imported, last>>

NormalizePass ==
    /\ pc = "raw"
    /\ normalized_data' = normalize_pass(raw_data)
    /\ pc' = "normalized"
    /\ UNCHANGED <<parser, modules, raw_data, data, calls, imported, last>>

\* the third pass ends the construction: the Config is ready, or __init__ raised
ParsePass ==
    /\ pc = "normalized"
    /\ LET constructed(r) ==
               IF r.exc # "none"
               THEN /\ pc' = "failed"
                    /\ last' = [op |-> "__init__", exc |-> r.exc]
                    /\ UNCHANGED <<data, calls>>
               ELSE /\ pc' = "ready"
                    /\ data' = r.ret
                    /\ calls' = [n \in DOMAIN r.ret[S_rapidsms].apps |-> 0]
                    /\ last' = [op |-> "__init__", exc |-> "none"]
       IN  constructed(parse_pass(raw_data, normalized_data))
    /\ UNCHANGED <<parser, modules, raw_data, normalized_data, imported>>

----------------------------------------------------------------------------
(* Reads of a built Config and of its app handles.                         *)

apps == data[S_rapidsms].apps

\* the state after a method of the handle of app n has called _dict()
Accessed(n, r) ==
    /\ data' = [data EXCEPT ![S_rapidsms].apps[n] = r.handle]
    /\ raw_data' = r.raw_data
    /\ calls' = [calls EXCEPT ![n] = @ + r.invoked]
    /\ imported' = imported \cup Range(r.log)
    /\ UNCHANGED <<pc, parser, modules, normalized_data>>

\* LazyAppConf.keys
HandleKeys(n) ==
    /\ pc = "ready" /\ n \in DOMAIN apps /\ calls[n] < MaxCalls
    /\ LET keys(r) ==
               /\ Accessed(n, r)
               /\ last' = [op |-> "keys", name |-> n, invoked |-> r.invoked, log |-> r.log,
                           exc |-> IF r.exc # "none" THEN r.exc
                                   ELSE IF r.ret.isNone THEN "AttributeError" ELSE "none",
                           ret |-> IF r.exc = "none" /\ ~r.ret.isNone
                                   THEN Some(DOMAIN r.ret.val) ELSE None]
       IN  keys(_dict(apps[n], raw_data, modules))

\* LazyAppConf.__getitem__
HandleGetItem(n, key) ==
    /\ pc = "ready" /\ n \in DOMAIN apps /\ calls[n] < MaxCalls
    /\ LET getitem(r) ==
               /\ Accessed(n, r)
               /\ last' = [op |-> "__getitem__", name |-> n, invoked |-> r.invoked,
                           log |-> r.log,
                           exc |-> IF r.exc # "none" THEN r.exc
                                   ELSE IF r.ret.isNone THEN "TypeError"
                                   ELSE IF key \notin DOMAIN r.ret.val THEN "KeyError"
                                   ELSE "none",
                           ret |-> IF r.exc = "none" /\ ~r.ret.isNone
                                      /\ key \in DOMAIN r.ret.val
                                   THEN Some(r.ret.val[key]) ELSE None]
       IN  getitem(_dict(apps[n], raw_data, modules))

\* LazyAppConf.__repr__
HandleRepr(n) ==
    /\ pc = "ready" /\ n \in DOMAIN apps /\ calls[n] < MaxCalls
    /\ LET repr(r) ==
               /\ Accessed(n, r)
               /\ last' = [op |-> "__repr__", name |-> n, invoked |-> r.invoked,
                           log |-> r.log, exc |-> r.exc,
                           ret |-> IF r.exc = "none" THEN Some(r.ret) ELSE None]
       IN  repr(_dict(apps[n], raw_data, modules))

\* Config.__getitem__
ConfigGetItem(key) ==
    /\ pc = "ready"
    /\ last' = [op |-> "Config.__getitem__", key |-> key,
                exc |-> IF key \in DOMAIN data THEN "none" ELSE "KeyError"]
    /\ UNCHANGED <<pc, parser, modules, raw_data, normalized_data, data, calls, imported>>

\* Config.has_key
ConfigHasKey(key) ==
    /\ pc = "ready"
    /\ last' = [op |-> "has_key", key |-> key, exc |-> "none", ret |-> key \in DOMAIN data]
    /\ UNCHANGED <<pc, parser, modules, raw_data, normalized_data, data, calls, imported>>

\* Config.app_section called on a built Config, as LazyAppConf._dict calls it
AppSection(name) ==
    /\ pc = "ready" /\ last.op = "__init__" /\ name \in DOMAIN apps
    /\ LET called(r) ==
               /\ raw_data' = r.raw_data
               /\ calls' = [calls EXCEPT ![name] = @ + 1]
               /\ imported' = imported \cup Range(r.log)
               /\ last' = [op |-> "app_section", name |-> name, exc |-> r.exc, log |-> r.log,
                           ret |-> IF r.exc = "none" THEN r.ret ELSE None,
                           printed |-> IF r.exc = "none" THEN r.printed ELSE None]
       IN  called(app_section(raw_data, modules, name))
    /\ UNCHANGED <<pc, parser, modules, normalized_data, data>>

\* Config.__normalize_value called on one string
NormalizeValue ==
    /\ pc = "value"
    /\ pc' = "normalized_value"
    /\ last' = [op |-> "__normalize_value", value |-> last.value,
                ret |-> __normalize_value(last.value)]
    /\ UNCHANGED <<parser, modules, raw_data, normalized_data, data, calls, imported>>

----------------------------------------------------------------------------
(* The inputs: ini files and the code units the interpreter can see.       *)

C_n == <<"n">>
C_o == <<"o">>
K   == <<"k">>
\* a private name of a code unit
P   == <<"_", "p">>
\* a value written in the ini file, a value set by a defaults unit, a value set
\* by an app's own package
U   == <<"u">>
D   == <<"d">>
E   == <<"e">>

NameChars  == {"n", "o"}
ListChars  == NameChars \cup {",", " "}
ValueChars == {"n", "o", "O", "0", "1", ".", " "}

\* an ini file: the [rapidsms] section, and the section of component C_n when
\* the file has one (section is None otherwise)
File(rapidsms, section) ==
    IF section.isNone THEN (S_rapidsms :> rapidsms)
    ELSE (S_rapidsms :> rapidsms) @@ (C_n :> section.val)

Unit(k, names) == [kind |-> k, names |-> names]

\* the files of Spec: "apps" and "backends" are comma-separated names; component
\* C_n has no section, or one with an option, or one with "type"
Files ==
    { File((S_apps :> s) @@ (S_backends :> t), section) :
        s \in StringsUpTo(NameChars \cup {","}, MaxAppsLen),
        t \in StringsUpTo({"n", ","}, MaxBackendsLen),
        section \in {None, Some(K :> U), Some(S_type :> U)} }

\* the code units of Spec: C_o is a package without a defaults unit; C_n does
\* not exist, or is a package without or with a defaults unit
Envs ==
    { (C_o :> Unit("package", EmptyDict)) @@ n :
        n \in { EmptyDict,
                (C_n :> Unit("package", EmptyDict)),
                (C_n :> Unit("package", EmptyDict))
                  @@ (join2(Dot, C_n, S_config) :> Unit("module", (K :> D) @@ (P :> D))) } }

Init ==
    /\ pc = "init"
    /\ parser \in Files
    /\ modules \in Envs
    /\ raw_data = EmptyDict
    /\ normalized_data = EmptyDict
    /\ data = EmptyDict
    /\ calls = EmptyDict
    /\ imported = {}
    /\ last = [op |-> "new"]

Next ==
    \/ ReadRaw
    \/ NormalizePass
    \/ ParsePass
    \/ \E n \in DOMAIN calls : HandleKeys(n)
    \/ \E n \in DOMAIN calls : \E key \in {S_type, K} : HandleGetItem(n, key)
    \/ \E n \in DOMAIN calls : HandleRepr(n)
    \/ \E key \in {S_rapidsms, C_n} : ConfigGetItem(key)
    \/ \E key \in {S_rapidsms, C_n} : ConfigHasKey(key)

\* a Config is constructed, then read through its handles and lookups
Spec == Init /\ [][Next]_vars

\* the files of SpecInit: one catalog key of [rapidsms] holds any short string
ListFiles ==
    { File(key :> s, None) :
        key \in {S_apps, S_backends}, s \in StringsUpTo(ListChars, MaxListLen) }

InitList ==
    /\ pc = "init"
    /\ parser \in ListFiles
    /\ modules = EmptyDict
    /\ raw_data = EmptyDict
    /\ normalized_data = EmptyDict
    /\ data = EmptyDict
    /\ calls = EmptyDict
    /\ imported = {}
    /\ last = [op |-> "new"]

NextInit == ReadRaw \/ NormalizePass \/ ParsePass

\* the construction of a Config alone
SpecInit == InitList /\ [][NextInit]_vars

InitNorm ==
    /\ pc = "value"
    /\ parser = EmptyDict
    /\ modules = EmptyDict
    /\ raw_data = EmptyDict
    /\ normalized_data = EmptyDict
    /\ data = EmptyDict
    /\ calls = EmptyDict
    /\ imported = {}
    /\ \E value \in StringsUpTo(ValueChars, MaxValueLen) : last = [op |-> "value", value |-> value]

NextNorm == NormalizeValue

\* __normalize_value applied to one string
SpecNorm == InitNorm /\ [][NextNorm]_vars

\* an entry of modules for path, when the unit exists (unit is None otherwise)
Part(path, unit) == IF unit.isNone THEN EmptyDict ELSE (path :> unit.val)

\* the code units of SpecApp: app C_n may exist as a top-level unit, with a
\* defaults unit, and under each prefix of app_prefixes
AppEnvs ==
    { Part(C_n, direct) @@ Part(join2(Dot, C_n, S_config), config)
        @@ Part(join2(Dot, app_prefixes[1], C_n), p1)
        @@ Part(join2(Dot, app_prefixes[2], C_n), p2)
        @@ (app_prefixes[1] :> Unit("package", EmptyDict))
        @@ (app_prefixes[2] :> Unit("package", EmptyDict)) :
        direct \in {None, Some(Unit("package", EmptyDict)), Some(Unit("package", K :> E)),
                    Some(Unit("module", EmptyDict)), Some(Unit("ImportError", EmptyDict)),
                    Some(Unit("Exception", EmptyDict))},
        config \in {None, Some(Unit("module", EmptyDict)),
                    Some(Unit("module", (K :> D) @@ (P :> D))),
                    Some(Unit("module", (S_path :> D) @@ (S_module :> D) @@ (S_type :> D))),
                    Some(Unit("ImportError", EmptyDict)), Some(Unit("Exception", EmptyDict))},
        p1 \in {None, Some(Unit("package", EmptyDict))},
        p2 \in {None, Some(Unit("package", EmptyDict))} }

\* the files of SpecApp: app C_n is listed, with no section or one of these
AppFiles ==
    { File(S_apps :> C_n, section) :
        section \in {None, Some(EmptyDict), Some(K :> U), Some(S_type :> U),
                     Some((S_module :> U) @@ (S_path :> U)), Some((K :> U) @@ (S_path :> U))} }

\* a Config built from one of AppFiles
InitApp ==
    /\ pc = "ready"
    /\ parser \in AppFiles
    /\ modules \in AppEnvs
    /\ raw_data = raw_pass(parser)
    /\ normalized_data = normalize_pass(raw_pass(parser))
    /\ data = parse_pass(raw_pass(parser), normalize_pass(raw_pass(parser))).ret
    /\ calls = (C_n :> 0)
    /\ imported = {}
    /\ last = [op |-> "__init__", exc |-> "none"]

NextApp == \E name \in DOMAIN calls : AppSection(name)

\* app_section called once on a built Config
SpecApp == InitApp /\ [][NextApp]_vars

----------------------------------------------------------------------------
(* The claims.                                                             *)

HandleOps == {"keys", "__getitem__", "__repr__"}

\* the raw section of component n, empty when the file has none
RawSection(n) == get(raw_data, n, EmptyDict)

\* n's code unit under the i-th prefix of app_prefixes
Prefixed(i, n) == join2(Dot, app_prefixes[i], n)

\* the prefixes under which n's code unit imports
Importable(n) == {i \in DOMAIN app_prefixes : loads(modules, Prefixed(i, n))}

\* n cannot be imported by its own name
NotDirect(n) == kind(modules, n) \in {"absent", "ImportError"}

FirstPrefix(n) == CHOOSE i \in Importable(n) : \A j \in Importable(n) : i <= j

\* C1: through one app handle, whatever the sequence of keys(), __getitem__ and
\* repr accesses, app_section is invoked at most once for that app, also when
\* the resolution fails.
C1_ResolvedAtMostOnce == \A n \in DOMAIN calls : calls[n] <= 1

\* C2: when the name cannot be imported directly but imports under some prefix
\* of app_prefixes, the resolver tries the name, then prefix.name for the
\* prefixes in list order up to the first that imports, tries no later prefix,
\* and resolves to that prefixed path.
C2_FirstPrefixResolves ==
    \A n \in DOMAIN calls :
        ( /\ last.op = "app_section" /\ last.name = n
          /\ S_type \notin DOMAIN RawSection(n)
          /\ NotDirect(n) /\ Importable(n) # {} )
        => /\ Len(last.log) >= 1 + FirstPrefix(n)
           /\ SubSeq(last.log, 1, 1 + FirstPrefix(n))
                = <<n>> \o [i \in 1..FirstPrefix(n) |-> Prefixed(i, n)]
           /\ \A i \in DOMAIN app_prefixes :
                  i > FirstPrefix(n) => Prefixed(i, n) \notin Range(last.log)
           /\ ~last.ret.isNone
           /\ last.ret.val[S_module] = Prefixed(FirstPrefix(n), n)

\* C3: a name that imports neither directly nor under any prefix fails with the
\* ImportError of __import_app, whose message lists the prefixes of app_prefixes
\* in their order, after every prefix has been tried.
C3_NotFoundListsPrefixes ==
    \A n \in DOMAIN calls :
        ( /\ last.op = "app_section" /\ last.name = n
          /\ S_type \notin DOMAIN RawSection(n)
          /\ NotDirect(n) /\ Importable(n) = {} )
        => /\ ~last.printed.isNone
           /\ last.printed.val.class = "ImportError"
           /\ last.printed.val.msg
                = [app |-> n, from |-> join(<<" ", "o", "r", " ">>, app_prefixes)]
           /\ last.log = <<n>> \o [i \in DOMAIN app_prefixes |-> Prefixed(i, n)]

\* the code units an import for app n may ask for
UnitsOf(n) ==
    {n, join2(Dot, n, S_config)}
        \cup {Prefixed(i, n) : i \in DOMAIN app_prefixes}
        \cup {join2(Dot, Prefixed(i, n), S_config) : i \in DOMAIN app_prefixes}

\* C4: for an app whose raw section holds "type", every access through its
\* handle raises the deprecation error to the caller, and no import has been
\* attempted for that app: not direct, not under a prefix, not of its defaults.
C4_TypeIsRefusedBeforeImport ==
    \A n \in DOMAIN calls :
        S_type \in DOMAIN RawSection(n)
        => /\ imported \cap UnitsOf(n) = {}
           /\ (last.op \in HandleOps /\ last.name = n)
                => last.exc = "DeprecationWarning" /\ last.log = << >>

C4_Witness ==
    /\ pc = "ready"
    /\ last.op \in HandleOps
    /\ last.name = C_n
    /\ S_type \in DOMAIN RawSection(C_n)
    /\ last.exc = "DeprecationWarning"
    /\ calls[C_n] = 2

\* what the docstring of __normalize_value gives for a string
Documented(value) ==
    IF lower(value) \in {S_false, S_no} THEN [bool |-> FALSE]
    ELSE IF lower(value) \in {S_true, S_yes} THEN [bool |-> TRUE]
    ELSE IF PyInt(value).exc = "none" THEN PyInt(value).ret
    ELSE IF PyFloat(value).exc = "none" THEN PyFloat(value).ret
    ELSE [str |-> value]

\* C5: __normalize_value gives the value of its documented table: False and
\* True for the boolean words in any case, the integer for a string that
\* parses as one, the float for one that parses as a float, the string itself
\* otherwise.
C5_NormalizesAsDocumented ==
    pc = "normalized_value" => last.ret = Documented(last.value)

\* the comma-separated entries of a string, trimmed, the empty ones dropped
Entries(s) == {strip(split(s, Comma)[i]) : i \in DOMAIN split(s, Comma)} \ {<< >>}

\* C6: for every string written as "apps" or "backends" in [rapidsms], the
\* construction completes and the catalog's names are the comma-separated
\* entries of the string, trimmed, the empty ones dropped.
C6_CatalogIsTheList ==
    pc \in {"ready", "failed"}
    => /\ pc = "ready"
       /\ DOMAIN data[S_rapidsms].apps = Entries(get(parser[S_rapidsms], S_apps, << >>))
       /\ DOMAIN data[S_rapidsms].backends
            = Entries(get(parser[S_rapidsms], S_backends, << >>))

backends == data[S_rapidsms].backends

\* the descriptor of backend b holds its raw options, and its name as "type"
\* when the options give none
Built(b) ==
    /\ DOMAIN backends[b] = DOMAIN RawSection(b) \cup {S_type}
    /\ \A key \in DOMAIN RawSection(b) : backends[b][key] = RawSection(b)[key]
    /\ S_type \notin DOMAIN RawSection(b) => backends[b][S_type] = b

\* when __init__ has returned and nothing has been read yet
LazyAtReturn ==
    (pc = "ready" /\ last.op = "__init__")
    => /\ imported = {}
       /\ \A n \in DOMAIN apps : calls[n] = 0 /\ apps[n]._cache.isNone
       /\ \A b \in DOMAIN backends : Built(b)

\* a step that runs app_section for n is an access through the handle of n
RunsOnlyOnAccess ==
    \A n \in DOMAIN calls :
        (n \in DOMAIN calls' /\ calls'[n] > calls[n])
        => last'.op \in HandleOps /\ last'.name = n

\* C7: constructing a Config resolves no app: when __init__ returns,
\* app_section has run for no app and nothing has been imported, while every
\* backend of the catalog has its descriptor; app_section(n) runs only in an
\* access through the handle of app n.
C7_ConstructionIsLazy == []LazyAtReturn /\ [][RunsOnlyOnAccess]_vars

C7_Witness ==
    /\ pc = "ready"
    /\ last.op = "__init__"
    /\ C_n \in DOMAIN apps
    /\ C_n \in DOMAIN backends
    /\ kind(modules, C_n) = "package"
    /\ S_type \notin DOMAIN RawSection(C_n)

\* C8: on any failure in the merge sequence of app_section, the reserved "type"
\* key check included, app_section does not raise to its caller.
C8_NeverRaises == last.op = "app_section" => last.exc = "none"

\* the merge of app n cannot succeed: its code unit does not import as a
\* package by its own name, or its defaults unit raises something other than
\* ImportError
Unmergeable(n) ==
    \/ kind(modules, n) # "package"
    \/ kind(modules, join2(Dot, n, S_config)) = "Exception"

\* C8, amended: an Exception raised inside the try block (resolution, defaults,
\* "path") is printed and app_section returns None; the "type" check stands
\* before the try block and its DeprecationWarning reaches the caller.
C8_OnlyTypeIsRaised ==
    last.op = "app_section"
    => IF S_type \in DOMAIN RawSection(last.name)
       THEN last.exc = "DeprecationWarning"
       ELSE /\ last.exc = "none"
            /\ last.ret.isNone <=> Unmergeable(last.name)
            /\ last.ret.isNone <=> ~last.printed.isNone

C8_Witness ==
    /\ last.op = "app_section"
    /\ S_type \notin DOMAIN RawSection(last.name)
    /\ kind(modules, last.name) = "Exception"
    /\ last.exc = "none"
    /\ last.ret.isNone

\* the public names of <n>.config, when that unit imports
ConfigNames(n) ==
    IF loads(modules, join2(Dot, n, S_config))
    THEN public(modules, join2(Dot, n, S_config)) ELSE EmptyDict

Defaults(n) ==
    IF kind(modules, join2(Dot, n, S_config)) = "absent" THEN public(modules, n)
    ELSE ConfigNames(n)

AsRead ==
    pc \in {"normalized", "ready", "failed"}
    => /\ DOMAIN raw_data = DOMAIN parser
       /\ DOMAIN normalized_data = DOMAIN parser
       /\ \A sn \in DOMAIN parser :
              /\ raw_data[sn] = parser[sn]
              /\ DOMAIN normalized_data[sn] = DOMAIN parser[sn]

Frozen ==
    pc \notin {"init", "raw"}
    => raw_data' = raw_data /\ normalized_data' = normalized_data

\* C10: once the first two passes have filled raw_data and normalized_data, no
\* later operation changes either; the keys a merge adds ("type", "module",
\* "path", defaults) never appear in a component's raw or normalized section.
C10_SectionsAreFrozen == []AsRead /\ [][Frozen]_vars

C10_Witness ==
    /\ pc = "ready"
    /\ C_n \in DOMAIN apps
    /\ ~apps[C_n]._cache.isNone
    /\ S_path \in DOMAIN apps[C_n]._cache.val
    /\ C_n \in DOMAIN raw_data
    /\ DOMAIN raw_data[C_n] = {K}
    /\ C_n \in DOMAIN backends

====
